---- MODULE Spec2Model ----
(***************************************************************************)
(* NovaFund ProjectLaunch contract: project lifecycle resolution           *)
(* (mark_project_failed) and the per-contributor refund engine             *)
(* (refund_contributor), as one ledger state machine.  Every action is one *)
(* ledger transaction: it commits all of its writes or none of them.       *)
(* The backend's email outbox (EmailService.sendEmail and the retry task   *)
(* EmailRetryTask.handleCron) is a second state machine over its own       *)
(* variables, one step per awaited call.                                   *)
(***************************************************************************)
EXTENDS Integers, Sequences, FiniteSets, TLC

\* ---------------------------------------------------------------- bounds
MaxTime == 2            \* ledger time runs 0..MaxTime (one unit = one day)
MaxContribs == 2        \* accepted contributions over a run
InitBalance == 1010     \* tokens every address holds at genesis
MaxRows == 2            \* rows the email outbox can hold
BatchSize == 1          \* rows one retry run takes (take: 50 in the code)
MaxNotes == 2           \* records the notification history can hold
MaxClock == 3           \* backend time runs 0..MaxClock
AlertWindow == 2        \* the alert window (24 hours in the code)
MaxDateNow == 2         \* frontend time runs 0..MaxDateNow
SnapshotCap == 1        \* snapshots a session keeps (100 in the code)

\* ------------------------------------------------------ program constants
MIN_FUNDING_GOAL == 1000
MIN_CONTRIBUTION == 10
MIN_PROJECT_DURATION == 1
MAX_PROJECT_DURATION == 180
MAX_ATTEMPTS == 3

\* ------------------------------------------------------------ input sets
Contributors == {"A", "B"}
Contract == "contract"
Stranger == "X"                         \* an address that never contributed
Holders == Contributors \cup {Contract, Stranger}
Callers == {"A", Stranger}              \* who submits a transaction
ProjectIds == {1, 2}                    \* ids the ledger assigns, in order
Goals == {MIN_FUNDING_GOAL - 1, MIN_FUNDING_GOAL}
Amounts == {MIN_CONTRIBUTION - 1, MIN_CONTRIBUTION, MIN_FUNDING_GOAL}
Deadlines == 0..MaxTime
Pairs == ProjectIds \X Contributors

NoOne == "-"

RunIds == {1, 2}                        \* retry runs that can be in progress
Recipients == {"u1"}
ProviderError == "provider error"       \* error.message of a rejected send

VARIABLES
    now,                \* env.ledger().timestamp()
    projects,           \* DataKey::Project: id -> record, ids 1..n
    contributions,      \* DataKey::ContributionAmount: <<id, addr>> -> i128
    refundProcessed,    \* DataKey::RefundProcessed: set of <<id, addr>>
    failureProcessed,   \* DataKey::ProjectFailureProcessed: set of ids
    balance,            \* token contract: holder -> amount
    events,             \* event stream of the refund mechanism
    last,               \* the last call: operation, arguments, result
    intake,             \* history: number of accepted contributions
    payouts,            \* history: refund transfers committed per pair
    resolved,           \* history: outcomes committed per project
    apiKey,             \* process.env.SENDGRID_API_KEY is set
    outbox,             \* prisma.emailOutbox: row id -> row, ids 1..n
    runs,               \* EmailRetryTask.handleCron: the runs in progress
    track,              \* history: provider sends made for each outbox row
    overlapped,         \* history: a run was started while another was at work
    lastMail,           \* the last step of the mailer and what it did
    users,              \* prisma.user with notificationSettings: id -> row
    notifications,      \* prisma.notification: the history records, in order
    ncall,              \* NotificationService.notify: the call in progress
    bprojects,          \* prisma.project with its contributions: id -> row
    arun,               \* DeadlineAlertTask.handleCron: the run in progress
    clock,              \* new Date() of the backend
    cache,              \* risk-engine _cache: key -> entry
    dateNow,            \* Date.now() of the frontend
    fcalls,             \* fetchWithCache: the calls in progress, each with
                        \* the error of its latest rejected fetch
    sessions,           \* risk-engine _sessions: projectId -> session
    sobjs,              \* the MonitorSession objects ever created
    polls,              \* runPoll: the polls awaiting assessProject
    lastPoll,           \* the handlers the last finished poll invoked
    lastMon             \* the last call of startMonitoring

ledgerVars == <<now, projects, contributions, refundProcessed, failureProcessed,
                balance, events, last, intake, payouts, resolved>>

mailVars == <<apiKey, outbox, runs, track, overlapped, lastMail>>

notifVars == <<users, notifications, ncall, bprojects, arun, clock>>

cacheVars == <<cache, dateNow, fcalls>>

monVars == <<sessions, sobjs, polls, lastPoll, lastMon>>

frontVars == <<cacheVars, monVars>>

appVars == <<notifVars, frontVars>>

vars == <<ledgerVars, mailVars, appVars>>

\* the ledger state proper: everything a transaction can write
ledger == <<projects, contributions, refundProcessed, failureProcessed,
            balance, events>>

Exists(p) == p \in DOMAIN projects

Call(op, p, c, res, amt) ==
    [op |-> op, pid |-> p, contributor |-> c, result |-> res, amount |-> amt]

\* ------------------------------------------------------------------ Init
LedgerInit ==
    /\ now = 0
    /\ projects = << >>
    /\ contributions = [k \in Pairs |-> 0]
    /\ refundProcessed = {}
    /\ failureProcessed = {}
    /\ balance = [h \in Holders |-> IF h = Contract THEN 0 ELSE InitBalance]
    /\ events = << >>
    /\ last = Call("init", 0, NoOne, "Ok", 0)
    /\ intake = 0
    /\ payouts = [k \in Pairs |-> << >>]
    /\ resolved = [p \in ProjectIds |-> << >>]

Mail(op, id, sent, result) ==
    [op |-> op, id |-> id, sent |-> sent, result |-> result]

IdleRun == [pc |-> "idle", batch |-> << >>, sendOk |-> FALSE]

OutboxInit ==
    /\ outbox = << >>
    /\ runs = [r \in RunIds |-> IdleRun]
    /\ track = << >>
    /\ overlapped = FALSE
    /\ lastMail = Mail("init", 0, "none", "returned")

\* ------------------------------------------------ notification backend
UserIds == {"u1", "u2"}                 \* rows of prisma.user
UnknownUser == "u0"                     \* an id findUnique does not find
NotificationTypes == {"CONTRIBUTION", "MILESTONE", "DEADLINE", "SYSTEM"}
Titles == {"T1", "T2"}                  \* project titles
BProjects == {"P1", "P2"}               \* rows of prisma.project
NoSettings == << >>                     \* user.notificationSettings is null

\* the settings notify falls back to when the user has no settings row
DefaultSettings ==
    [emailEnabled |-> TRUE, pushEnabled |-> FALSE,
     notifyContributions |-> TRUE, notifyMilestones |-> TRUE,
     notifyDeadlines |-> TRUE]

\* bodies of PUT settings/:userId that the model sends
SettingsChoices ==
    { DefaultSettings,
      [DefaultSettings EXCEPT !.notifyDeadlines = FALSE,
                              !.pushEnabled = TRUE],
      [DefaultSettings EXCEPT !.notifyContributions = FALSE,
                              !.notifyMilestones = FALSE,
                              !.emailEnabled = FALSE] }

IdleCall ==
    [pc |-> "idle", userId |-> NoOne, type |-> NoOne,
     settings |-> DefaultSettings, email |-> FALSE, push |-> FALSE,
     noteId |-> 0, emailed |-> "skipped", pushed |-> "skipped",
     result |-> "returned"]

IdleAlertRun ==
    [pc |-> "idle", now |-> 0, queue |-> {}, cur |-> NoOne, todo |-> {},
     decision |-> [pid |-> NoOne, existing |-> FALSE]]

BProject(title, deadline, investors) ==
    [title |-> title, status |-> "ACTIVE", deadline |-> deadline,
     investors |-> investors]

NotifyInit ==
    /\ users = [u \in UserIds |->
                  [email |-> (u = "u1"), pushSubscription |-> FALSE,
                   notificationSettings |-> NoSettings]]
    /\ notifications = << >>
    /\ ncall = IdleCall
    /\ arun = IdleAlertRun
    /\ clock = 0

\* ------------------------------------------------- risk engine (frontend)
FetchAttempts == 3                      \* tries of fetchWithCache
Keys == {"on", "off"}                   \* `on:${id}:${chain}`, `off:${id}`
Data == {"d1", "d2"}                    \* what a fetcher resolves to
Errors == {"e1", "e2"}                  \* what a fetcher rejects with
Ttls == {1}                             \* ttlMs, in clock units
FCallIds == {1, 2}                      \* fetchWithCache calls in progress
NoEntry == << >>                        \* _cache.get(key) is undefined

FResult(kind, value) == [kind |-> kind, value |-> value]

IdleFetch ==
    [pc |-> "idle", key |-> NoOne, ttl |-> 0, attempt |-> 0, calls |-> 0,
     lastErr |-> NoOne, rejected |-> NoOne,
     result |-> FResult("none", NoOne)]

CacheInit ==
    /\ cache = [k \in Keys |-> NoEntry]
    /\ dateNow = 0
    /\ fcalls = [c \in FCallIds |-> IdleFetch]

MonProjects == {"p1"}                   \* projectId of the monitor API
Scores == {40, 50}                      \* riskScore.overall of an assessment
AlertHandlers == {"a1"}                 \* callbacks given to onRiskAlert
SnapshotHandlers == {"s1"}              \* callbacks given to onRiskSnapshot
PollIds == {1, 2}                       \* polls awaiting their assessment
SessionIds == {1, 2}                    \* MonitorSession objects, as created

IdlePoll == [pc |-> "idle", sid |-> 0, pid |-> NoOne, prevAtStart |-> << >>]

NoPoll == [alertInvoked |-> {}, snapshotInvoked |-> {}]

MonCall(op, pid, result) == [op |-> op, pid |-> pid, result |-> result]

MonitorInit ==
    /\ sessions = [p \in MonProjects |-> 0]
    /\ sobjs = << >>
    /\ polls = [k \in PollIds |-> IdlePoll]
    /\ lastPoll = NoPoll
    /\ lastMon = MonCall("init", NoOne, "returned")

AppInit ==
    /\ NotifyInit
    /\ CacheInit
    /\ MonitorInit
    /\ bprojects = [p \in BProjects |-> BProject("T1", AlertWindow, {"u1"})]

Init == LedgerInit /\ apiKey = TRUE /\ OutboxInit /\ AppInit

\* the backend starts with or without a SendGrid key in its environment
MailInit == LedgerInit /\ apiKey \in BOOLEAN /\ OutboxInit /\ AppInit

\* ------------------------------------------------------------- ledger time
AdvanceTime ==
    /\ now < MaxTime
    /\ now' = now + 1
    /\ last' = Call("tick", 0, NoOne, "Ok", 0)
    /\ UNCHANGED <<ledger, intake, payouts, resolved, mailVars, appVars>>

\* ------------------------------------------------------- token contract
\* TokenClient.transfer: rejected when the sender's balance is too small or
\* when the token contract refuses it for a reason of its own (accept)
TransferAccepted(from, amt, accept) == accept /\ balance[from] >= amt

\* transfer that credits the receiver without debiting the sender
TransferWithoutDebit(from, to, amt) ==
    [h \in Holders |-> IF h = to THEN balance[h] + amt ELSE balance[h]]

Transfer(from, to, amt) ==
    [h \in Holders |->
        IF h = from /\ h = to THEN balance[h]
        ELSE IF h = from THEN balance[h] - amt
        ELSE IF h = to THEN balance[h] + amt
        ELSE balance[h]]

\* ----------------------------------------------------- create_project
NewProject(goal, deadline) ==
    [creator |-> "creator", funding_goal |-> goal, deadline |-> deadline,
     token |-> "XLM", total_raised |-> 0, status |-> "Active"]

CreateCheck(goal, deadline) ==
    IF goal < MIN_FUNDING_GOAL THEN "InvalidFundingGoal"
    ELSE IF deadline - now < MIN_PROJECT_DURATION
            \/ deadline - now > MAX_PROJECT_DURATION THEN "InvalidDeadline"
    ELSE "Ok"

create_project(goal, deadline) ==
    LET r == CreateCheck(goal, deadline)
        id == Len(projects) + 1
    IN  /\ id \in ProjectIds
        /\ projects' = IF r = "Ok" THEN Append(projects, NewProject(goal, deadline))
                       ELSE projects
        /\ last' = Call("create_project", IF r = "Ok" THEN id ELSE 0, NoOne, r, 0)
        /\ UNCHANGED <<now, contributions, refundProcessed, failureProcessed,
                       balance, events, intake, payouts, resolved, mailVars, appVars>>

\* --------------------------------------------------------- contribute
\* intake that never looks at the deadline
ContributeCheckNoDeadline(p, c, amt) ==
    IF ~Exists(p) THEN "ProjectNotFound"
    ELSE IF projects[p].status # "Active" THEN "ProjectNotActive"
    ELSE IF amt < MIN_CONTRIBUTION THEN "ContributionTooLow"
    ELSE "Ok"

ContributeCheck(p, c, amt) ==
    IF ~Exists(p) THEN "ProjectNotFound"
    ELSE IF projects[p].status # "Active" THEN "ProjectNotActive"
    ELSE IF now >= projects[p].deadline THEN "DeadlinePassed"
    ELSE IF amt < MIN_CONTRIBUTION THEN "ContributionTooLow"
    ELSE "Ok"

contribute(p, c, amt) ==
    LET r == ContributeCheck(p, c, amt)
        ok == r = "Ok" /\ TransferAccepted(c, amt, TRUE)
    IN  /\ intake < MaxContribs
        /\ intake' = IF ok THEN intake + 1 ELSE intake
        /\ balance' = IF ok THEN Transfer(c, Contract, amt) ELSE balance
        /\ contributions' =
              IF ok THEN [contributions EXCEPT ![<<p, c>>] = @ + amt]
              ELSE contributions
        /\ projects' =
              IF ok THEN [projects EXCEPT ![p].total_raised = @ + amt]
              ELSE projects
        /\ last' = Call("contribute", p, c,
                        IF r # "Ok" THEN r ELSE IF ok THEN "Ok" ELSE "TransferFailed",
                        0)
        /\ UNCHANGED <<now, refundProcessed, failureProcessed, events,
                       payouts, resolved, mailVars, appVars>>

\* ------------------------------------------------------ cancel_project
CancelCheck(p) ==
    IF ~Exists(p) THEN "ProjectNotFound"
    ELSE IF projects[p].status # "Active" THEN "InvalidProjectStatus"
    ELSE "Ok"

cancel_project(p) ==
    LET r == CancelCheck(p)
    IN  /\ projects' = IF r = "Ok" THEN [projects EXCEPT ![p].status = "Cancelled"]
                       ELSE projects
        /\ last' = Call("cancel_project", p, NoOne, r, 0)
        /\ UNCHANGED <<now, contributions, refundProcessed, failureProcessed,
                       balance, events, intake, payouts, resolved, mailVars, appVars>>

\* -------------------------------------------------------------- queries
\* is_refunded reading the project's ProjectFailureProcessed key
is_refundedWrongKey(p, c) == p \in failureProcessed

is_refunded(p, c) == <<p, c>> \in refundProcessed

is_failure_processed(p) == p \in failureProcessed

\* ------------------------------------------------- mark_project_failed
\* deadline check that lets the deadline instant itself through
DeadlineReachedInclusive(p) == now >= projects[p].deadline

DeadlineReached(p) == now > projects[p].deadline

AlreadyProcessed(p) == is_failure_processed(p)

\* mark_project_failed without the status check
NotActiveUnchecked(p) == FALSE

NotActive(p) == projects[p].status # "Active"

\* mark_project_failed that reports an already processed project as a bad input
MarkCheckAsInvalidInput(p) ==
    IF ~Exists(p) THEN "ProjectNotFound"
    ELSE IF ~DeadlineReached(p) THEN "InvalidInput"
    ELSE IF AlreadyProcessed(p) THEN "InvalidInput"
    ELSE IF NotActive(p) THEN "InvalidProjectStatus"
    ELSE "Ok"

\* mark_project_failed guarded by the deadline alone
MarkCheckDeadlineOnly(p) ==
    IF ~Exists(p) THEN "ProjectNotFound"
    ELSE IF ~DeadlineReached(p) THEN "InvalidInput"
    ELSE "Ok"

\* mark_project_failed that looks at the flag and the status before the deadline
MarkCheckStatusFirst(p) ==
    IF ~Exists(p) THEN "ProjectNotFound"
    ELSE IF AlreadyProcessed(p) THEN "InvalidProjectStatus"
    ELSE IF NotActive(p) THEN "InvalidProjectStatus"
    ELSE IF ~DeadlineReached(p) THEN "InvalidInput"
    ELSE "Ok"

MarkCheck(p) ==
    IF ~Exists(p) THEN "ProjectNotFound"
    ELSE IF ~DeadlineReached(p) THEN "InvalidInput"
    ELSE IF AlreadyProcessed(p) THEN "InvalidProjectStatus"
    ELSE IF NotActive(p) THEN "InvalidProjectStatus"
    ELSE "Ok"

\* goal comparison that needs the goal to be exceeded
GoalReachedStrict(total_raised, funding_goal) == total_raised > funding_goal

GoalReached(total_raised, funding_goal) == total_raised >= funding_goal

Outcome(p) ==
    IF GoalReached(projects[p].total_raised, projects[p].funding_goal)
    THEN "Completed" ELSE "Failed"

ProjectFailedEvent(p) ==
    [type |-> "PROJECT_FAILED", pid |-> p, contributor |-> NoOne, amount |-> 0]

\* PROJECT_FAILED emitted in both branches
EventsAfterMarkBothBranches(p) == Append(events, ProjectFailedEvent(p))

EventsAfterMark(p) ==
    IF Outcome(p) = "Failed" THEN Append(events, ProjectFailedEvent(p)) ELSE events

\* flag written on the failure branch only
FailureProcessedOnFailureOnly(p) ==
    IF Outcome(p) = "Failed" THEN failureProcessed \cup {p} ELSE failureProcessed

\* flag stored under a key without the project id: set for every project
FailureProcessedForAll(p) == failureProcessed \cup DOMAIN projects

FailureProcessedAfterMark(p) == failureProcessed \cup {p}

\* mark_project_failed that writes the flag before it checks anything
mark_project_failedFlagFirst(caller, p) ==
    LET r == MarkCheck(p)
    IN  /\ projects' = IF r = "Ok" THEN [projects EXCEPT ![p].status = Outcome(p)]
                       ELSE projects
        /\ events' = IF r = "Ok" THEN EventsAfterMark(p) ELSE events
        /\ failureProcessed' = FailureProcessedAfterMark(p)
        /\ resolved' = IF r = "Ok" THEN [resolved EXCEPT ![p] = Append(@, Outcome(p))]
                       ELSE resolved
        /\ last' = Call("mark_project_failed", p, NoOne, r, 0)
        /\ UNCHANGED <<now, contributions, refundProcessed, balance, intake,
                       payouts, mailVars, appVars>>

mark_project_failed(caller, p) ==
    LET r == MarkCheck(p)
    IN  /\ projects' = IF r = "Ok" THEN [projects EXCEPT ![p].status = Outcome(p)]
                       ELSE projects
        /\ events' = IF r = "Ok" THEN EventsAfterMark(p) ELSE events
        /\ failureProcessed' = IF r = "Ok" THEN FailureProcessedAfterMark(p)
                               ELSE failureProcessed
        /\ resolved' = IF r = "Ok" THEN [resolved EXCEPT ![p] = Append(@, Outcome(p))]
                       ELSE resolved
        /\ last' = Call("mark_project_failed", p, NoOne, r, 0)
        /\ UNCHANGED <<now, contributions, refundProcessed, balance, intake,
                       payouts, mailVars, appVars>>

\* -------------------------------------------------- refund_contributor
\* refund_contributor that only turns away projects still collecting
NotFailedOnlyActive(p) == projects[p].status = "Active"

NotFailed(p) == projects[p].status # "Failed"

\* refund_contributor without the double-refund check
AlreadyRefundedUnchecked(p, c) == FALSE

\* refund flag looked up per project instead of per (project, contributor)
AlreadyRefundedAnyContributor(p, c) == \E x \in Contributors : is_refunded(p, x)

AlreadyRefunded(p, c) == is_refunded(p, c)

\* refund amount read from the project total instead of the contributor's record
ContributionAmountOfProject(p, c) == projects[p].total_raised

ContributionAmount(p, c) == contributions[<<p, c>>]

\* refund_contributor without the contribution check
NoContributionUnchecked(p, c) == FALSE

NoContribution(p, c) == ContributionAmount(p, c) <= 0

RefundCheck(p, c) ==
    IF ~Exists(p) THEN "ProjectNotFound"
    ELSE IF NotFailed(p) THEN "ProjectNotActive"
    ELSE IF AlreadyRefunded(p, c) THEN "InvalidInput"
    ELSE IF NoContribution(p, c) THEN "InvalidInput"
    ELSE "Ok"

RefundIssuedEvent(p, c, amt) ==
    [type |-> "REFUND_ISSUED", pid |-> p, contributor |-> c, amount |-> amt]

\* refund_contributor that never records the refund
RefundProcessedNeverSet(p, c, accepted) == refundProcessed

\* refund_contributor that records the refund whether or not the transfer
\* went through
RefundProcessedBeforeTransfer(p, c, accepted) == refundProcessed \cup {<<p, c>>}

\* refund flag written for the whole project at the first refund
RefundProcessedForProject(p, c, accepted) ==
    IF accepted THEN refundProcessed \cup {<<p, x>> : x \in Contributors}
    ELSE refundProcessed

\* the writes that follow the transfer; a rejected transfer reverts the
\* whole transaction, so they are committed only when it was accepted
RefundProcessedAfter(p, c, accepted) ==
    IF accepted THEN refundProcessed \cup {<<p, c>>} ELSE refundProcessed

\* REFUND_ISSUED emitted whether or not the transfer went through
EventsAfterRefundUnconditional(p, c, amt, accepted) ==
    Append(events, RefundIssuedEvent(p, c, amt))

EventsAfterRefund(p, c, amt, accepted) ==
    IF accepted THEN Append(events, RefundIssuedEvent(p, c, amt)) ELSE events

\* refund paid to whoever submitted the call
RefundRecipientIsCaller(caller, c) == caller

\* the transfer goes to the contributor argument, whoever calls
RefundRecipient(caller, c) == c

\* refund_contributor that resets the refunded contributor's record
ContributionsAfterRefundCleared(p, c, accepted) ==
    IF accepted THEN [contributions EXCEPT ![<<p, c>>] = 0] ELSE contributions

\* the refund reads the contribution record and leaves it as it is
ContributionsAfterRefund(p, c, accepted) == contributions

refund_contributor(caller, p, c, accept) ==
    LET r == RefundCheck(p, c)
        amt == IF r = "Ok" THEN ContributionAmount(p, c) ELSE 0
        accepted == r = "Ok" /\ TransferAccepted(Contract, amt, accept)
        to == RefundRecipient(caller, c)
    IN  /\ balance' = IF accepted THEN Transfer(Contract, to, amt) ELSE balance
        /\ refundProcessed' = IF r = "Ok" THEN RefundProcessedAfter(p, c, accepted)
                              ELSE refundProcessed
        /\ events' = IF r = "Ok" THEN EventsAfterRefund(p, c, amt, accepted)
                     ELSE events
        /\ payouts' =
              IF accepted
              THEN [payouts EXCEPT ![<<p, c>>] =
                       Append(@, [amount |-> balance'[c] - balance[c],
                                  status |-> projects[p].status])]
              ELSE payouts
        /\ last' = Call("refund_contributor", p, c,
                        IF r # "Ok" THEN r
                        ELSE IF accepted THEN "Ok" ELSE "TransferFailed",
                        IF accepted THEN amt ELSE 0)
        /\ contributions' = ContributionsAfterRefund(p, c, accepted)
        /\ UNCHANGED <<now, projects, failureProcessed, intake, resolved,
                       mailVars, appVars>>

\* ================================================= EmailService.sendEmail
\* the row written by the catch block; attempts takes the column default
NewOutboxRow(to) ==
    [to |-> to, status |-> "FAILED", attempts |-> 0, lastError |-> ProviderError]

\* what one call did with the provider: "none" without a key, else the
\* outcome of sgMail.send
SendOutcome(providerOk) ==
    IF ~apiKey THEN "none" ELSE IF providerOk THEN "ok" ELSE "failed"

\* sendEmail that files every mail it handled in the outbox
OutboxAfterSendEmailAlways(to, sent) ==
    IF sent = "none" THEN outbox ELSE Append(outbox, NewOutboxRow(to))

OutboxAfterSendEmail(to, sent) ==
    IF sent = "failed" THEN Append(outbox, NewOutboxRow(to)) ELSE outbox

sendEmail(to, providerOk) ==
    LET sent == SendOutcome(providerOk)
    IN  /\ Len(outbox) < MaxRows
        /\ outbox' = OutboxAfterSendEmail(to, sent)
        /\ track' = IF Len(outbox') > Len(outbox)
                    THEN Append(track, [sends |-> 0, delivered |-> 0])
                    ELSE track
        /\ lastMail' = Mail("sendEmail", 0, sent,
                            IF sent = "failed" THEN "thrown" ELSE "returned")
        /\ UNCHANGED <<apiKey, runs, overlapped, ledgerVars, appVars>>

\* ============================================ EmailRetryTask.handleCron
\* findMany that selects on the status alone
CandidatesAnyAttempts == {i \in DOMAIN outbox : outbox[i].status = "FAILED"}

\* where: { status: 'FAILED', attempts: { lt: MAX_ATTEMPTS } }
Candidates ==
    {i \in DOMAIN outbox :
        outbox[i].status = "FAILED" /\ outbox[i].attempts < MAX_ATTEMPTS}

Min(a, b) == IF a < b THEN a ELSE b

\* take: the query has no orderBy, so which rows it returns is up to the
\* database
Batches ==
    {b \in SUBSET Candidates :
        Cardinality(b) = Min(BatchSize, Cardinality(Candidates))}

\* the rows as findMany returned them: later writes do not change them
RECURSIVE Snapshot(_)
Snapshot(ids) ==
    IF ids = {} THEN << >>
    ELSE LET i == CHOOSE x \in ids : \A y \in ids : x <= y
         IN  <<[id |-> i, attempts |-> outbox[i].attempts]>>
                 \o Snapshot(ids \ {i})

\* the cron tick: the query and the entry into the loop.  A tick may find
\* an earlier run still awaiting a call; one such overlap per behaviour is
\* followed, which is what it takes for two runs to hold the same row
handleCron(r, ids) ==
    /\ runs[r].pc = "idle"
    /\ ids \in Batches
    /\ LET busy == ids # {} /\ \E q \in RunIds : runs[q].pc # "idle"
       IN  /\ busy => ~overlapped
           /\ overlapped' = (overlapped \/ busy)
    /\ runs' = [runs EXCEPT ![r] =
                   IF ids = {} THEN IdleRun
                   ELSE [pc |-> "loop", batch |-> Snapshot(ids), sendOk |-> FALSE]]
    /\ lastMail' = Mail("handleCron", 0, "none", "returned")
    /\ UNCHANGED <<apiKey, outbox, track, ledgerVars, appVars>>

\* the cron tick of a scheduler that waits for the run before it
handleCronSerial(r, ids) ==
    /\ \A q \in RunIds : runs[q].pc = "idle"
    /\ handleCron(r, ids)

\* the history stops counting the sends of a row here: more than any
\* value attempts can take
TrackCap == MAX_ATTEMPTS + 2

\* one pass of the loop up to the awaited sgMail.send: without a key the
\* handler returns and drops the rest of its batch
Send(r, providerOk) ==
    LET email == Head(runs[r].batch)
        sent == SendOutcome(providerOk)
    IN  /\ runs[r].pc = "loop"
        /\ runs' = [runs EXCEPT ![r] =
                       IF sent = "none" THEN IdleRun
                       ELSE [@ EXCEPT !.pc = "sent", !.sendOk = providerOk]]
        /\ track' = IF sent = "none" THEN track
                    ELSE [track EXCEPT ![email.id] =
                             [sends |-> Min(@.sends + 1, TrackCap),
                              delivered |-> @.delivered
                                              + (IF providerOk THEN 1 ELSE 0)]]
        /\ lastMail' = Mail("send", email.id, sent, "returned")
        /\ UNCHANGED <<apiKey, outbox, overlapped, ledgerVars, appVars>>

\* the catch block leaving attempts as they were
RowAfterRetryNoCount(row, email, sendOk) ==
    IF sendOk THEN [row EXCEPT !.status = "SENT", !.attempts = email.attempts + 1]
    ELSE [row EXCEPT !.lastError = ProviderError]

\* prisma.emailOutbox.update of either branch: attempts is written from the
\* row the query returned, not from the row as it is now
RowAfterRetry(row, email, sendOk) ==
    IF sendOk THEN [row EXCEPT !.status = "SENT", !.attempts = email.attempts + 1]
    ELSE [row EXCEPT !.attempts = email.attempts + 1,
                     !.lastError = ProviderError]

\* the awaited update that ends one pass of the loop
UpdateRow(r) ==
    LET email == Head(runs[r].batch)
        rest == Tail(runs[r].batch)
    IN  /\ runs[r].pc = "sent"
        /\ outbox' = [outbox EXCEPT ![email.id] =
                         RowAfterRetry(@, email, runs[r].sendOk)]
        /\ runs' = [runs EXCEPT ![r] =
                       IF rest = << >> THEN IdleRun
                       ELSE [pc |-> "loop", batch |-> rest, sendOk |-> FALSE]]
        /\ lastMail' = Mail("update", email.id,
                            IF runs[r].sendOk THEN "ok" ELSE "failed", "returned")
        /\ UNCHANGED <<apiKey, track, overlapped, ledgerVars, appVars>>

\* ------------------------------------------------------------------ Next
Next ==
    \/ AdvanceTime
    \/ \E g \in Goals, d \in Deadlines : create_project(g, d)
    \/ \E p \in ProjectIds, c \in Contributors, a \in Amounts :
          contribute(p, c, a)
    \/ \E p \in ProjectIds : cancel_project(p)
    \/ \E caller \in Callers, p \in ProjectIds : mark_project_failed(caller, p)
    \/ \E caller \in Callers, p \in ProjectIds, c \in Contributors,
          ok \in BOOLEAN :
          refund_contributor(caller, p, c, ok)

Spec == Init /\ [][Next]_vars

\* the mailer with cron ticks that may find the run before still at work
MailNext ==
    \/ \E to \in Recipients, ok \in BOOLEAN : sendEmail(to, ok)
    \/ \E r \in RunIds, ids \in SUBSET (1..MaxRows) : handleCron(r, ids)
    \/ \E r \in RunIds, ok \in BOOLEAN : Send(r, ok)
    \/ \E r \in RunIds : UpdateRow(r)

MailSpec == MailInit /\ [][MailNext]_vars

\* the mailer when no two runs of the retry task overlap
MailSerialNext ==
    \/ \E to \in Recipients, ok \in BOOLEAN : sendEmail(to, ok)
    \/ \E r \in RunIds, ids \in SUBSET (1..MaxRows) : handleCronSerial(r, ids)
    \/ \E r \in RunIds, ok \in BOOLEAN : Send(r, ok)
    \/ \E r \in RunIds : UpdateRow(r)

MailSerialSpec == MailInit /\ [][MailSerialNext]_vars

\* the cron keeps firing and every awaited call returns
MailFairness ==
    /\ WF_vars(\E r \in RunIds, ids \in SUBSET (1..MaxRows) : handleCron(r, ids))
    /\ \A r \in RunIds : WF_vars(\E ok \in BOOLEAN : Send(r, ok))
    /\ \A r \in RunIds : WF_vars(UpdateRow(r))

MailLiveSpec == MailInit /\ [][MailNext]_vars /\ MailFairness

\* ------------------------------------------------------- history helpers
IsCall(call, op) == call.op = op

RECURSIVE SeqSum(_)
SeqSum(s) == IF s = << >> THEN 0 ELSE s[1].amount + SeqSum(Tail(s))

RECURSIVE TotalRefunded(_, _)
TotalRefunded(p, cs) ==
    IF cs = {} THEN 0
    ELSE LET c == CHOOSE x \in cs : TRUE
         IN  SeqSum(payouts[<<p, c>>]) + TotalRefunded(p, cs \ {c})

C2_RefundAtMostOnce ==
    [][\A k \in Pairs :
          /\ Len(payouts'[k]) <= 1
          /\ (Len(payouts[k]) >= 1 /\ IsCall(last', "refund_contributor")
                 /\ <<last'.pid, last'.contributor>> = k)
             => (last'.result = "InvalidInput" /\ last'.amount = 0
                 /\ ledger' = ledger)]_vars

C2_Witness ==
    /\ IsCall(last, "refund_contributor")
    /\ last.result = "InvalidInput"
    /\ Len(payouts[<<last.pid, last.contributor>>]) = 1

\* ------------------------------------------------------------------ C3
\* C3: refund_contributor on an existing project whose status is Active,
\* Completed or Cancelled fails with ProjectNotActive and changes nothing,
\* whatever the contribution and the refund flag are, also after the
\* deadline when mark_project_failed has not been called.
C3_RefundOnlyWhenFailed ==
    [][(IsCall(last', "refund_contributor") /\ Exists(last'.pid)
          /\ projects[last'.pid].status \in {"Active", "Completed", "Cancelled"})
       => (last'.result = "ProjectNotActive" /\ ledger' = ledger)]_vars

C3_Witness ==
    /\ IsCall(last, "refund_contributor")
    /\ last.result = "ProjectNotActive"
    /\ projects[last.pid].status = "Active"
    /\ now > projects[last.pid].deadline
    /\ contributions[<<last.pid, last.contributor>>] > 0

\* ------------------------------------------------------------------ C4
\* C4: for every project the sum of the amounts refunded so far never
\* exceeds the project's total_raised.
C4_RefundsWithinRaised ==
    \A p \in DOMAIN projects :
        TotalRefunded(p, Contributors) <= projects[p].total_raised

C4_Witness ==
    \E p \in DOMAIN projects :
        /\ \A c \in Contributors : Len(payouts[<<p, c>>]) = 1
        /\ TotalRefunded(p, Contributors) = projects[p].total_raised

\* ------------------------------------------------------------------ C5
\* C5: mark_project_failed on an existing project fails with InvalidInput
\* whenever the ledger time is not strictly greater than the deadline
\* (time = deadline included), and then changes nothing.
C5_NotBeforeDeadline ==
    [][(IsCall(last', "mark_project_failed") /\ Exists(last'.pid)
          /\ now <= projects[last'.pid].deadline)
       => (last'.result = "InvalidInput" /\ ledger' = ledger)]_vars

C5_Witness ==
    /\ IsCall(last, "mark_project_failed")
    /\ last.result = "InvalidInput"
    /\ now = projects[last.pid].deadline

\* ------------------------------------------------------------------ C6
\* C6: a successful mark_project_failed commits Completed exactly when
\* total_raised >= funding_goal at the call (equality is success) and
\* Failed exactly when total_raised < funding_goal.
C6_OutcomeByGoal ==
    [][(IsCall(last', "mark_project_failed") /\ last'.result = "Ok")
       => LET p == last'.pid
          IN  /\ projects[p].total_raised >= projects[p].funding_goal
                    => projects'[p].status = "Completed"
              /\ projects[p].total_raised < projects[p].funding_goal
                    => projects'[p].status = "Failed"]_vars

C6_Witness ==
    /\ IsCall(last, "mark_project_failed")
    /\ last.result = "Ok"
    /\ projects[last.pid].total_raised = projects[last.pid].funding_goal
    /\ projects[last.pid].status = "Completed"

\* ------------------------------------------------------------------ C7
\* C7: a project's status changes only from Active, to Completed or Failed
\* by mark_project_failed or to Cancelled; a status of Completed, Failed or
\* Cancelled is never changed again, and no project is deleted.
C7_StatusChangesOnce ==
    [][\A p \in DOMAIN projects :
          /\ p \in DOMAIN projects'
          /\ projects'[p].status # projects[p].status
             => /\ projects[p].status = "Active"
                /\ projects'[p].status \in {"Completed", "Failed", "Cancelled"}
                /\ projects'[p].status \in {"Completed", "Failed"}
                      => (IsCall(last', "mark_project_failed") /\ last'.pid = p)]_vars

C7_Witness ==
    /\ IsCall(last, "mark_project_failed")
    /\ last.result = "InvalidProjectStatus"
    /\ projects[last.pid].status = "Cancelled"
    /\ \E q \in DOMAIN projects : projects[q].status = "Failed"

\* ------------------------------------------------------------------ C8
\* C8: ProjectFailureProcessed(p) is set exactly when the project's status
\* is Completed or Failed (never for an Active, Cancelled or absent
\* project), and once set it is never cleared.
C8_FlagIffResolved ==
    /\ [](\A p \in ProjectIds :
            is_failure_processed(p)
               <=> (Exists(p) /\ projects[p].status \in {"Completed", "Failed"}))
    /\ [][failureProcessed \subseteq failureProcessed']_vars

C8_Witness ==
    \E p, q \in DOMAIN projects :
        /\ is_failure_processed(p) /\ projects[p].status = "Completed"
        /\ ~is_failure_processed(q) /\ projects[q].status = "Cancelled"
        /\ now > projects[q].deadline

\* ------------------------------------------------------------------ C9
\* C9: RefundProcessed(p, c) is set only if a transfer of exactly the
\* recorded contribution of (p, c) to c was committed while the project
\* was Failed, and once set it is never cleared.
C9_FlagImpliesPaid ==
    /\ [](\A k \in refundProcessed :
            \E i \in DOMAIN payouts[k] :
                /\ payouts[k][i].amount = contributions[k]
                /\ payouts[k][i].status = "Failed")
    /\ [][refundProcessed \subseteq refundProcessed']_vars

C9_Witness ==
    \E k \in refundProcessed :
        /\ payouts[k] = << [amount |-> contributions[k], status |-> "Failed"] >>
        /\ balance[k[2]] = InitBalance

\* ----------------------------------------------------------------- C10
\* C10: a refund whose token transfer is rejected has no effect: the flag
\* stays absent, no event is appended and no balance changes, so the flag
\* is never set without a payout, and the same refund is still accepted
\* afterwards.
C10_RejectedTransferReverts ==
    /\ [][\A k \in Pairs :
            (IsCall(last', "refund_contributor") /\ last'.result = "TransferFailed"
               /\ <<last'.pid, last'.contributor>> = k)
            => /\ ledger' = ledger
               /\ ~is_refunded(k[1], k[2])'
               /\ RefundCheck(k[1], k[2])' = "Ok"]_vars
    /\ [](\A k \in refundProcessed : Len(payouts[k]) >= 1)

C10_Witness ==
    /\ IsCall(last, "refund_contributor")
    /\ last.result = "TransferFailed"
    /\ ~is_refunded(last.pid, last.contributor)
    /\ balance[Contract] >= contributions[<<last.pid, last.contributor>>]

CountEvents(type, p, c) ==
    Cardinality({i \in DOMAIN events :
                    /\ events[i].type = type
                    /\ events[i].pid = p
                    /\ events[i].contributor = c})

PreconditionErrors ==
    {"ProjectNotFound", "InvalidInput", "InvalidProjectStatus", "ProjectNotActive"}

\* ----------------------------------------------------------------- C11
\* C11: a call of mark_project_failed or refund_contributor that fails a
\* precondition (ProjectNotFound, InvalidInput, InvalidProjectStatus,
\* ProjectNotActive) leaves project records, contributions, both flags,
\* token balances and the event log exactly as they were.
C11_FailedCallChangesNothing ==
    [][((IsCall(last', "mark_project_failed") \/ IsCall(last', "refund_contributor"))
          /\ last'.result \in PreconditionErrors)
       => ledger' = ledger]_vars

C11_Witness ==
    /\ IsCall(last, "mark_project_failed")
    /\ last.result = "InvalidInput"
    /\ projects[last.pid].status = "Active"
    /\ projects[last.pid].total_raised > 0
    /\ ~is_failure_processed(last.pid)

\* ----------------------------------------------------------------- C12
\* C12: the event log holds PROJECT_FAILED(p) exactly once for a project
\* that mark_project_failed committed as Failed and not at all for a
\* project that is Completed, Cancelled, Active or absent; the log only
\* grows.
C12_ProjectFailedOnce ==
    /\ [](\A p \in ProjectIds :
            CountEvents("PROJECT_FAILED", p, NoOne)
               = IF Exists(p) /\ projects[p].status = "Failed"
                    /\ resolved[p] = << "Failed" >>
                 THEN 1 ELSE 0)
    /\ [][Len(events') >= Len(events)
          /\ SubSeq(events', 1, Len(events)) = events]_vars

C12_Witness ==
    \E p, q \in DOMAIN projects :
        /\ projects[p].status = "Failed"
        /\ projects[q].status = "Completed"
        /\ CountEvents("PROJECT_FAILED", p, NoOne) = 1
        /\ CountEvents("PROJECT_FAILED", q, NoOne) = 0
        /\ IsCall(last, "mark_project_failed") /\ last.pid = q /\ last.result = "Ok"

\* ----------------------------------------------------------------- C13
\* C13: the event log holds REFUND_ISSUED(p, c, amount) exactly once for
\* every pair that has been refunded and not at all for any other pair,
\* and the amount is the pair's recorded contribution and the value the
\* refund call returned.
C13_RefundIssuedOnce ==
    /\ [](\A k \in Pairs :
            /\ CountEvents("REFUND_ISSUED", k[1], k[2]) = Len(payouts[k])
            /\ Len(payouts[k]) <= 1
            /\ \A i \in DOMAIN events :
                  (events[i].type = "REFUND_ISSUED"
                     /\ <<events[i].pid, events[i].contributor>> = k)
                  => events[i].amount = contributions[k])
    /\ [][(IsCall(last', "refund_contributor") /\ last'.result = "Ok")
          => /\ Len(events') = Len(events) + 1
             /\ events'[Len(events')] =
                   RefundIssuedEvent(last'.pid, last'.contributor, last'.amount)
             /\ last'.amount = contributions[<<last'.pid, last'.contributor>>]]_vars

C13_Witness ==
    \E k \in Pairs, j \in Pairs :
        /\ k[1] = j[1] /\ k # j
        /\ CountEvents("REFUND_ISSUED", k[1], k[2]) = 1
        /\ CountEvents("REFUND_ISSUED", j[1], j[2]) = 0
        /\ contributions[j] > 0
        /\ last = Call("refund_contributor", j[1], j[2], "TransferFailed", 0)

\* ----------------------------------------------------------------- C14
\* C14: on a Failed project refunds of two different contributors commute.
\* When refund(p, a) commits in a state where refund(p, b) is acceptable,
\* refund(p, b) is still acceptable afterwards and returns the same amount,
\* and the flags and balances after both are the state before plus both
\* refunds, an expression symmetric in a and b; the project record is not
\* touched.  A refund never changes the result of the other contributor's.
C14_RefundsCommute ==
    [][\A p \in ProjectIds, a \in Contributors, b \in Contributors :
          (a # b /\ last' = Call("refund_contributor", p, a, "Ok", last'.amount))
          => /\ RefundCheck(p, b)' = RefundCheck(p, b)
             /\ projects' = projects
             /\ RefundCheck(p, b) = "Ok"
                => LET amtA == ContributionAmount(p, a)
                       amtB == ContributionAmount(p, b)
                   IN  /\ last'.amount = amtA
                       /\ ContributionAmount(p, b)' = amtB
                       /\ RefundProcessedAfter(p, b, TRUE)'
                             = refundProcessed \cup {<<p, a>>, <<p, b>>}
                       /\ Transfer(Contract, b, ContributionAmount(p, b))'
                             = [h \in Holders |->
                                   balance[h]
                                   + (IF h = a THEN amtA ELSE 0)
                                   + (IF h = b THEN amtB ELSE 0)
                                   - (IF h = Contract THEN amtA + amtB ELSE 0)]]_vars

C14_Witness ==
    \E p \in DOMAIN projects :
        /\ \A c \in Contributors : is_refunded(p, c) /\ balance[c] = InitBalance
        /\ IsCall(last, "refund_contributor") /\ last.pid = p /\ last.result = "Ok"
        /\ events[1].type = "PROJECT_FAILED"
        /\ events[2].contributor = "B" /\ events[3].contributor = "A"

C17_NoContributionNoRefund ==
    [][\A k \in Pairs :
          (IsCall(last', "refund_contributor")
             /\ <<last'.pid, last'.contributor>> = k)
          => /\ ~Exists(k[1])
                => (last'.result = "ProjectNotFound" /\ ledger' = ledger)
             /\ (Exists(k[1]) /\ projects[k[1]].status = "Failed"
                   /\ contributions[k] <= 0)
                => /\ last'.result = "InvalidInput"
                   /\ refundProcessed' = refundProcessed
                   /\ ~is_refunded(k[1], k[2])'
                   /\ balance' = balance]_vars

C17_Witness ==
    /\ IsCall(last, "refund_contributor")
    /\ last.result = "InvalidInput"
    /\ projects[last.pid].status = "Failed"
    /\ projects[last.pid].total_raised > 0
    /\ contributions[<<last.pid, last.contributor>>] = 0
    /\ ~is_refunded(last.pid, last.contributor)

C19_QueriesTellHistory ==
    /\ \A k \in Pairs : is_refunded(k[1], k[2]) <=> Len(payouts[k]) >= 1
    /\ \A p \in ProjectIds : is_failure_processed(p) <=> Len(resolved[p]) >= 1

C19_Witness ==
    \E k \in Pairs, j \in Pairs :
        /\ k[1] = j[1] /\ k # j
        /\ is_failure_processed(k[1])
        /\ is_refunded(k[1], k[2]) /\ Len(payouts[k]) = 1
        /\ ~is_refunded(j[1], j[2]) /\ contributions[j] > 0
        /\ \E q \in DOMAIN projects : ~is_failure_processed(q)

\* ----------------------------------------------------------------- C20
\* C20: a successful mark_project_failed(p) moves no tokens and changes
\* only p's status and p's ProjectFailureProcessed flag, plus at most one
\* event: token balances, contributions, total_raised, the RefundProcessed
\* flags and every other project stay as they were.
C20_ResolveFrame ==
    [][\A p \in ProjectIds :
          (IsCall(last', "mark_project_failed") /\ last'.result = "Ok"
             /\ last'.pid = p)
          => /\ balance' = balance
             /\ contributions' = contributions
             /\ refundProcessed' = refundProcessed
             /\ failureProcessed' = failureProcessed \cup {p}
             /\ Len(events') <= Len(events) + 1
             /\ SubSeq(events', 1, Len(events)) = events
             /\ DOMAIN projects' = DOMAIN projects
             /\ \A q \in DOMAIN projects : q # p => projects'[q] = projects[q]
             /\ projects'[p] = [projects[p] EXCEPT !.status = projects'[p].status]]_vars

C20_Witness ==
    /\ IsCall(last, "mark_project_failed")
    /\ last.result = "Ok"
    /\ balance[Contract] > 0
    /\ \E q \in DOMAIN projects :
          /\ q # last.pid
          /\ projects[q].total_raised > 0
          /\ ~is_failure_processed(q)
          /\ projects[last.pid].total_raised > 0

\* ------------------------------------------------------------------ C21
\* C21: no call of mark_project_failed or refund_contributor writes the
\* contribution records: every recorded contribution amount and every
\* project's total_raised are the same after the call as before it, and the
\* record of a refunded contributor stays positive (only the
\* RefundProcessed flag stands against a second payout).
C21_ContributionLedgerReadOnly ==
    [][(IsCall(last', "mark_project_failed")
          \/ IsCall(last', "refund_contributor"))
       => (/\ contributions' = contributions
           /\ DOMAIN projects' = DOMAIN projects
           /\ \A p \in DOMAIN projects :
                 projects'[p].total_raised = projects[p].total_raised
           /\ \A k \in refundProcessed' :
                 /\ contributions'[k] > 0
                 /\ ~NoContribution(k[1], k[2])'
                 /\ RefundCheck(k[1], k[2])' = "InvalidInput")]_vars

C21_Witness ==
    /\ IsCall(last, "refund_contributor") /\ last.result = "Ok"
    /\ <<last.pid, last.contributor>> \in refundProcessed
    /\ contributions[<<last.pid, last.contributor>>] = last.amount
    /\ last.amount > 0
    /\ projects[last.pid].total_raised >= last.amount

\* ------------------------------------------------------------------ C22
\* C22: what mark_project_failed and refund_contributor return and write
\* does not depend on who submits the call: a step that is the call made by
\* one caller is also the same call made by any other caller (same result,
\* same next state), and a successful refund credits the contributor named
\* in the call and no other holder, the caller included.
C22_CallerIndependent ==
    [][/\ \A p \in ProjectIds :
             (IsCall(last', "mark_project_failed") /\ last'.pid = p)
             => ((\E x \in Callers : mark_project_failed(x, p))
                   => \A y \in Callers : mark_project_failed(y, p))
       /\ \A p \in ProjectIds, c \in Contributors :
             (IsCall(last', "refund_contributor") /\ last'.pid = p
                /\ last'.contributor = c)
             => \A ok \in BOOLEAN :
                   (\E x \in Callers : refund_contributor(x, p, c, ok))
                   => \A y \in Callers : refund_contributor(y, p, c, ok)
       /\ (IsCall(last', "refund_contributor") /\ last'.result = "Ok")
             => /\ balance'[last'.contributor]
                      = balance[last'.contributor] + last'.amount
                /\ \A h \in Holders \ {Contract, last'.contributor} :
                      balance'[h] = balance[h]]_vars

C22_Witness ==
    /\ IsCall(last, "refund_contributor") /\ last.result = "Ok"
    /\ last.contributor = "B"
    /\ balance["B"] = InitBalance
    /\ contributions[<<last.pid, "A">>] > 0
    /\ balance["A"] = InitBalance - contributions[<<last.pid, "A">>]
    /\ balance[Stranger] = InitBalance

\* ------------------------------------------------------------------ C23
RECURSIVE SumContributions(_, _)
SumContributions(p, cs) ==
    IF cs = {} THEN 0
    ELSE LET c == CHOOSE x \in cs : TRUE
         IN  contributions[<<p, c>>] + SumContributions(p, cs \ {c})

\* C23: contribute turns away every contribution to a project that is not
\* Active or whose deadline has passed and writes nothing then; an accepted
\* contribution adds one and the same positive amount to the contributor's
\* record and to total_raised in the same step; so total_raised is always
\* the sum of the project's recorded contributions, and from the deadline
\* on neither of them changes.
C23_IntakeKeepsTotals ==
    [][/\ \A k \in Pairs :
             (IsCall(last', "contribute") /\ <<last'.pid, last'.contributor>> = k
                /\ Exists(k[1]))
             => /\ (projects[k[1]].status # "Active"
                       \/ now >= projects[k[1]].deadline)
                      => (last'.result # "Ok" /\ ledger' = ledger)
                /\ last'.result = "Ok"
                      => /\ contributions'[k] > contributions[k]
                         /\ projects'[k[1]].total_raised - projects[k[1]].total_raised
                               = contributions'[k] - contributions[k]
                         /\ \A j \in Pairs \ {k} :
                               contributions'[j] = contributions[j]
       /\ \A p \in DOMAIN projects' :
             projects'[p].total_raised = SumContributions(p, Contributors)'
       /\ \A p \in DOMAIN projects :
             now >= projects[p].deadline
             => /\ projects'[p].total_raised = projects[p].total_raised
                /\ \A c \in Contributors :
                      contributions'[<<p, c>>] = contributions[<<p, c>>]]_vars

C23_Witness ==
    /\ IsCall(last, "contribute") /\ last.result = "DeadlinePassed"
    /\ projects[last.pid].status = "Active"
    /\ now >= projects[last.pid].deadline
    /\ projects[last.pid].total_raised > 0
    /\ projects[last.pid].total_raised = SumContributions(last.pid, Contributors)

RefundDue(p, c) ==
    /\ Exists(p) /\ projects[p].status = "Failed"
    /\ contributions[<<p, c>>] > 0
    /\ ~is_refunded(p, c)

\* C26: the funds of a failed project are never locked.  While a refund is
\* due to a contributor, refund_contributor passes its checks and the
\* contract holds the amount, so a call whose transfer the token contract
\* accepts succeeds and pays the recorded contribution; no step other than
\* that successful refund ends the refund being due; and when no refund is
\* due any more on a Failed project, the refunds paid add up to total_raised.
C26_FundsNeverLocked ==
    [][\A k \in Pairs :
          /\ RefundDue(k[1], k[2])'
                => /\ RefundCheck(k[1], k[2])' = "Ok"
                   /\ TransferAccepted(Contract, ContributionAmount(k[1], k[2]), TRUE)'
          /\ RefundDue(k[1], k[2])
                => /\ \A x \in Callers :
                         refund_contributor(x, k[1], k[2], TRUE)
                         => /\ last'.result = "Ok"
                            /\ balance'[k[2]] = balance[k[2]] + contributions[k]
                   /\ \/ RefundDue(k[1], k[2])'
                      \/ /\ IsCall(last', "refund_contributor")
                         /\ <<last'.pid, last'.contributor>> = k
                         /\ last'.result = "Ok"
          /\ (/\ Exists(k[1])' /\ projects'[k[1]].status = "Failed"
              /\ \A c \in Contributors : ~RefundDue(k[1], c)')
                => TotalRefunded(k[1], Contributors)' = projects'[k[1]].total_raised]_vars

C26_Witness ==
    /\ IsCall(last, "refund_contributor") /\ last.result = "Ok"
    /\ projects[last.pid].status = "Failed"
    /\ \A c \in Contributors :
          contributions[<<last.pid, c>>] > 0 /\ is_refunded(last.pid, c)
    /\ TotalRefunded(last.pid, Contributors) = projects[last.pid].total_raised
    /\ balance[Contract] = 0

\* ------------------------------------------------------------------ C27
\* the retry step just taken on row i: the provider send or the row update
IsRetry(op, i) == lastMail'.op = op /\ lastMail'.id = i

\* C27: when no two runs of the retry task overlap, the task sends only
\* rows that are FAILED with fewer than MAX_ATTEMPTS attempts; the update
\* after a send adds exactly 1 to attempts, sets SENT after an accepted
\* send, keeps FAILED (with the error text) after a rejected one, and
\* touches no other row and creates none; attempts never exceed
\* MAX_ATTEMPTS, count the sends made, and no row is delivered twice.
C27_RetryBounded ==
    [][\A i \in DOMAIN outbox :
          /\ (IsRetry("send", i) /\ lastMail'.sent # "none")
                => (outbox[i].status = "FAILED"
                    /\ outbox[i].attempts < MAX_ATTEMPTS)
          /\ IsRetry("update", i)
                => /\ outbox'[i].attempts = outbox[i].attempts + 1
                   /\ outbox'[i].to = outbox[i].to
                   /\ lastMail'.sent = "ok" => outbox'[i].status = "SENT"
                   /\ lastMail'.sent = "failed"
                         => (outbox'[i].status = "FAILED"
                             /\ outbox'[i].lastError = ProviderError)
                   /\ DOMAIN outbox' = DOMAIN outbox
                   /\ \A j \in DOMAIN outbox \ {i} : outbox'[j] = outbox[j]
          /\ outbox'[i].attempts <= MAX_ATTEMPTS
          /\ outbox'[i].attempts <= track'[i].sends
          /\ track'[i].sends <= outbox'[i].attempts + 1
          /\ track'[i].delivered <= 1]_vars

C27_Witness ==
    /\ lastMail.op = "update" /\ lastMail.sent = "failed"
    /\ outbox[lastMail.id].status = "FAILED"
    /\ outbox[lastMail.id].attempts = MAX_ATTEMPTS
    /\ track[lastMail.id].sends = MAX_ATTEMPTS
    /\ lastMail.id \notin Candidates
    /\ \E j \in DOMAIN outbox :
          outbox[j].status = "SENT" /\ track[j].delivered = 1
    /\ ~overlapped

\* ------------------------------------------------------------------ C28
\* the retry task is through with row i: sent, or given up after
\* MAX_ATTEMPTS, and in no run's batch
RetryOver(i) ==
    /\ outbox[i].status = "SENT" \/ outbox[i].attempts >= MAX_ATTEMPTS
    /\ i \notin Candidates
    /\ \A r \in RunIds : \A n \in DOMAIN runs[r].batch :
             runs[r].batch[n].id # i

\* C28: with the SendGrid key set, a cron that keeps firing and awaited
\* calls that return, every outbox row is eventually SENT or at
\* MAX_ATTEMPTS and from then on is never retried again, whichever rows the
\* batches pick and also when more rows are pending than one batch takes.
C28_RetryTerminates ==
    \A i \in 1..MaxRows :
        <>[]((apiKey /\ i \in DOMAIN outbox) => RetryOver(i))

C28_Witness ==
    /\ apiKey
    /\ Cardinality(Candidates) > BatchSize
    /\ \E r \in RunIds :
          /\ runs[r].pc = "sent" /\ Len(runs[r].batch) = BatchSize
          /\ \A n \in DOMAIN runs[r].batch :
                outbox[runs[r].batch[n].id].attempts = MAX_ATTEMPTS - 1
    /\ \E i \in Candidates :
          /\ outbox[i].attempts = 0
          /\ \A r \in RunIds : \A n \in DOMAIN runs[r].batch :
             runs[r].batch[n].id # i

\* ------------------------------------------------------------------ C29
\* some run has sent row i to the provider and not yet written the row
UpdatePending(i) ==
    \E r \in RunIds : runs[r].pc = "sent" /\ Head(runs[r].batch).id = i

\* C29: also when runs of the retry task overlap, no outbox row is
\* delivered by the provider more than once, and once the updates of the
\* sends made for a row are written its attempts equal the number of those
\* sends.
C29_OverlapDeliversOnce ==
    \A i \in DOMAIN outbox :
        /\ track[i].delivered <= 1
        /\ ~UpdatePending(i) => outbox[i].attempts = track[i].sends

\* ------------------------------------------------------------------ C30
\* C30: a sendEmail whose provider send fails appends exactly one row, with
\* status FAILED, no attempts and the error text, and throws; a sendEmail
\* whose send is accepted leaves the outbox as it is and returns; without
\* the SendGrid key sendEmail does not call the provider, leaves the outbox
\* as it is and returns.
C30_SendEmailOutbox ==
    [][lastMail'.op = "sendEmail"
       => /\ lastMail'.sent = "failed"
                => /\ outbox' = Append(outbox, outbox'[Len(outbox')])
                   /\ outbox'[Len(outbox')].status = "FAILED"
                   /\ outbox'[Len(outbox')].attempts = 0
                   /\ outbox'[Len(outbox')].lastError = ProviderError
                   /\ outbox'[Len(outbox')].to \in Recipients
                   /\ lastMail'.result = "thrown"
          /\ lastMail'.sent = "ok"
                => (outbox' = outbox /\ lastMail'.result = "returned")
          /\ ~apiKey
                => (lastMail'.sent = "none" /\ outbox' = outbox
                    /\ lastMail'.result = "returned")
          /\ apiKey => lastMail'.sent # "none"
          /\ runs' = runs]_vars

C30_Witness ==
    /\ lastMail.op = "sendEmail" /\ lastMail.sent = "failed"
    /\ lastMail.result = "thrown"
    /\ Len(outbox) = 2
    /\ outbox[2] = NewOutboxRow("u1")
    /\ outbox[1].status = "SENT"

\* ============================================ NotificationService.notify
\* the type is switched off in the settings; SYSTEM has no switch
FilteredNoDeadlineSwitch(type, settings) ==
    \/ type = "CONTRIBUTION" /\ ~settings.notifyContributions
    \/ type = "MILESTONE" /\ ~settings.notifyMilestones

Filtered(type, settings) ==
    \/ type = "CONTRIBUTION" /\ ~settings.notifyContributions
    \/ type = "MILESTONE" /\ ~settings.notifyMilestones
    \/ type = "DEADLINE" /\ ~settings.notifyDeadlines

SettingsOf(user) ==
    IF user.notificationSettings = NoSettings
    THEN DefaultSettings ELSE user.notificationSettings[1]

Note(userId, type, title, pid) ==
    [userId |-> userId, type |-> type, title |-> title, pid |-> pid]

\* notify up to and including prisma.notification.create
notify(userId, type, title, pid) ==
    /\ ncall.pc = "idle"
    /\ Len(notifications) < MaxNotes
    /\ IF userId \notin DOMAIN users
       THEN /\ ncall' = [IdleCall EXCEPT !.userId = userId, !.type = type]
            /\ UNCHANGED notifications
       ELSE LET user == users[userId]
                settings == SettingsOf(user)
            IN  IF Filtered(type, settings)
                THEN /\ ncall' = [IdleCall EXCEPT !.userId = userId,
                                                  !.type = type,
                                                  !.settings = settings]
                     /\ UNCHANGED notifications
                ELSE /\ notifications' =
                            Append(notifications, Note(userId, type, title, pid))
                     /\ ncall' = [IdleCall EXCEPT
                                    !.pc = "email", !.userId = userId,
                                    !.type = type, !.settings = settings,
                                    !.email = user.email,
                                    !.push = user.pushSubscription,
                                    !.noteId = Len(notifications) + 1,
                                    !.result = "pending"]
    /\ UNCHANGED <<users, mailVars, ledgerVars, frontVars>>

\* a caller outside the alert task
notifyCall(userId, type, title) ==
    /\ notify(userId, type, title, NoOne)
    /\ UNCHANGED <<bprojects, arun, clock>>

\* an email failure that escapes notify
AfterEmailRethrow(sent) ==
    IF sent = "failed" THEN [pc |-> "idle", result |-> "thrown"]
    ELSE [pc |-> "push", result |-> "pending"]

\* where notify goes after the email dispatch: the catch only logs
AfterEmail(sent) == [pc |-> "push", result |-> "pending"]

\* the email dispatch of notify, with EmailService.sendEmail inside it
NotifyEmail(providerOk) ==
    /\ ncall.pc = "email"
    /\ IF ncall.settings.emailEnabled /\ ncall.email
       THEN LET sent == SendOutcome(providerOk)
                next == AfterEmail(sent)
            IN  /\ outbox' = OutboxAfterSendEmail(ncall.userId, sent)
                /\ track' = IF Len(outbox') > Len(outbox)
                            THEN Append(track, [sends |-> 0, delivered |-> 0])
                            ELSE track
                /\ lastMail' = Mail("sendEmail", 0, sent,
                                    IF sent = "failed" THEN "thrown"
                                    ELSE "returned")
                /\ ncall' = [ncall EXCEPT !.pc = next.pc, !.emailed = sent,
                                          !.result = next.result]
       ELSE /\ ncall' = [ncall EXCEPT !.pc = "push"]
            /\ UNCHANGED <<outbox, track, lastMail>>
    /\ UNCHANGED <<apiKey, runs, overlapped, ledgerVars, frontVars>>
    /\ UNCHANGED <<users, notifications, bprojects, arun, clock>>

PushOutcomes == {"none", "ok", "failed"}    \* "none": no VAPID keys set

\* the web-push dispatch of notify; WebPushService rethrows, notify logs
NotifyPush(outcome) ==
    /\ ncall.pc = "push"
    /\ ncall' = [ncall EXCEPT
                   !.pc = "idle",
                   !.pushed = IF ncall.settings.pushEnabled /\ ncall.push
                              THEN outcome ELSE "skipped",
                   !.result = "returned"]
    /\ UNCHANGED <<users, notifications, bprojects, arun, clock>>
    /\ UNCHANGED <<mailVars, ledgerVars, frontVars>>

\* ================================================ NotificationController
updateSettings(userId, settings) ==
    /\ userId \in DOMAIN users
    /\ users' = [users EXCEPT ![userId].notificationSettings = <<settings>>]
    /\ UNCHANGED <<notifications, ncall, bprojects, arun, clock>>
    /\ UNCHANGED <<mailVars, ledgerVars, frontVars>>

subscribeToPush(userId) ==
    /\ userId \in DOMAIN users
    /\ users' = [users EXCEPT ![userId].pushSubscription = TRUE]
    /\ UNCHANGED <<notifications, ncall, bprojects, arun, clock>>
    /\ UNCHANGED <<mailVars, ledgerVars, frontVars>>

NotifyNext ==
    \/ \E u \in UserIds \cup {UnknownUser}, t \in NotificationTypes :
            notifyCall(u, t, "T1")
    \/ \E ok \in BOOLEAN : NotifyEmail(ok)
    \/ \E o \in PushOutcomes : NotifyPush(o)
    \/ \E s \in SettingsChoices : updateSettings("u1", s)
    \/ subscribeToPush("u1")

NotifySpec == Init /\ [][NotifyNext]_vars

\* ---------------------------------------------------------------- C31
\* C31: notify creates no history record and dispatches on no channel when
\* the user does not exist or has switched the notification's type off
\* (CONTRIBUTION, MILESTONE, DEADLINE); a SYSTEM notification to an existing
\* user is always recorded; without a settings row the defaults apply: every
\* type is recorded, email is dispatched and web push is not.
SwitchedOff(u, t) ==
    /\ u \in DOMAIN users
    /\ users[u].notificationSettings # NoSettings
    /\ LET row == users[u].notificationSettings[1]
       IN  \/ t = "CONTRIBUTION" /\ ~row.notifyContributions
           \/ t = "MILESTONE" /\ ~row.notifyMilestones
           \/ t = "DEADLINE" /\ ~row.notifyDeadlines

Recorded(u, t) ==
    /\ Len(notifications') = Len(notifications) + 1
    /\ notifications'[Len(notifications')].userId = u
    /\ notifications'[Len(notifications')].type = t
    /\ ncall'.noteId = Len(notifications')
    /\ ncall'.pc = "email"

C31_NotifyFilter ==
    [][ /\ \A u \in UserIds \cup {UnknownUser}, t \in NotificationTypes :
            (ncall.pc = "idle" /\ ncall' # ncall
                /\ ncall'.userId = u /\ ncall'.type = t) =>
              /\ (u \notin DOMAIN users \/ SwitchedOff(u, t)) =>
                    /\ notifications' = notifications
                    /\ outbox' = outbox
                    /\ ncall'.pc = "idle"
                    /\ ncall'.emailed = "skipped"
                    /\ ncall'.pushed = "skipped"
              /\ (u \in DOMAIN users /\ t = "SYSTEM") => Recorded(u, t)
              /\ (u \in DOMAIN users
                    /\ users[u].notificationSettings = NoSettings) =>
                    /\ Recorded(u, t)
                    /\ ncall'.settings.emailEnabled
                    /\ ~ncall'.settings.pushEnabled
        /\ (ncall.pc = "email" /\ ncall'.pc # "email"
                /\ ncall.settings.emailEnabled /\ ncall.email)
              => ncall'.emailed # "skipped"
        /\ (ncall.pc = "push" /\ ncall'.pc # "push"
                /\ ~ncall.settings.pushEnabled)
              => ncall'.pushed = "skipped"
      ]_vars

C31_Witness ==
    /\ ncall.pc = "idle"
    /\ ncall.type = "DEADLINE"
    /\ ncall.userId = "u1"
    /\ ~ncall.settings.notifyDeadlines
    /\ ncall.noteId = 0
    /\ \E i \in DOMAIN notifications :
          notifications[i].userId = "u2" /\ notifications[i].type = "SYSTEM"

\* ---------------------------------------------------------------- C32
\* C32: the history record is written before any dispatch and stays written
\* whatever the delivery outcome; a failed email dispatch neither reaches
\* the caller nor prevents the web-push dispatch, and a failed web-push
\* dispatch does not reach the caller either.
C32_DispatchFailuresContained ==
    [][ /\ \A i \in DOMAIN notifications :
              i \in DOMAIN notifications' /\ notifications'[i] = notifications[i]
        /\ (ncall'.emailed # "skipped" \/ ncall'.pushed # "skipped") =>
              /\ ncall'.noteId \in DOMAIN notifications
              /\ notifications[ncall'.noteId].userId = ncall'.userId
        /\ (ncall.pc = "email" /\ ncall'.emailed = "failed") =>
              /\ ncall'.pc = "push"
              /\ ncall'.result # "thrown"
        /\ (ncall.pc = "push" /\ ncall'.pc # "push"
                /\ ncall.settings.pushEnabled /\ ncall.push) =>
              ncall'.pushed # "skipped"
        /\ (ncall.pc = "push" /\ ncall'.pc # "push") =>
              ncall'.pc = "idle" /\ ncall'.result = "returned"
      ]_vars

C32_Witness ==
    /\ ncall.pc = "idle"
    /\ ncall.emailed = "failed"
    /\ ncall.pushed = "failed"
    /\ ncall.result = "returned"
    /\ ncall.noteId \in DOMAIN notifications

\* ======================================== DeadlineAlertTask.handleCron
\* `24 Hours Left: ${project.title}`
AlertTitle(title) ==
    IF title = "T1" THEN "24 Hours Left: T1" ELSE "24 Hours Left: T2"

\* a query that also takes a project whose deadline is now
InWindowInclusive(p, t) ==
    /\ bprojects[p].status = "ACTIVE"
    /\ bprojects[p].deadline >= t
    /\ bprojects[p].deadline <= t + AlertWindow

\* the where clause of project.findMany
InWindow(p, t) ==
    /\ bprojects[p].status = "ACTIVE"
    /\ bprojects[p].deadline > t
    /\ bprojects[p].deadline <= t + AlertWindow

\* notification.findFirst({ where: { type: 'DEADLINE', title } })
ExistingAlert(title) ==
    \E i \in DOMAIN notifications :
        /\ notifications[i].type = "DEADLINE"
        /\ notifications[i].title = AlertTitle(title)

\* the hourly run starts: now, and the projects the query returns
deadlineAlertCron ==
    /\ arun.pc = "idle"
    /\ arun' = [IdleAlertRun EXCEPT
                  !.pc = "loop", !.now = clock,
                  !.queue = {p \in BProjects : InWindow(p, clock)}]
    /\ UNCHANGED <<users, notifications, ncall, bprojects, clock>>
    /\ UNCHANGED <<mailVars, ledgerVars, frontVars>>

\* the head of the project loop with its duplicate check; findMany has no
\* orderBy, the projects come in any order
NextProject ==
    /\ arun.pc = "loop"
    /\ IF arun.queue = {}
       THEN arun' = IdleAlertRun
       ELSE \E p \in arun.queue :
              LET existing == ExistingAlert(bprojects[p].title)
              IN  arun' = [arun EXCEPT
                     !.queue = @ \ {p},
                     !.decision = [pid |-> p, existing |-> existing],
                     !.pc = IF existing THEN "loop" ELSE "investors",
                     !.cur = IF existing THEN NoOne ELSE p,
                     !.todo = IF existing THEN {}
                              ELSE bprojects[p].investors]
    /\ UNCHANGED <<users, notifications, ncall, bprojects, clock>>
    /\ UNCHANGED <<mailVars, ledgerVars, frontVars>>

\* the contributor loop: one awaited notify per distinct investor
NotifyInvestor ==
    /\ arun.pc = "investors"
    /\ ncall.pc = "idle"
    /\ IF arun.todo = {}
       THEN /\ arun' = [arun EXCEPT !.pc = "loop", !.cur = NoOne]
            /\ UNCHANGED <<users, notifications, ncall>>
            /\ UNCHANGED <<mailVars, ledgerVars, frontVars>>
       ELSE \E u \in arun.todo :
              /\ notify(u, "DEADLINE", AlertTitle(bprojects[arun.cur].title),
                        arun.cur)
              /\ arun' = [arun EXCEPT !.todo = @ \ {u}]
    /\ UNCHANGED <<bprojects, clock>>

TickClock ==
    /\ clock < MaxClock
    /\ clock' = clock + 1
    /\ UNCHANGED <<users, notifications, ncall, bprojects, arun>>
    /\ UNCHANGED <<mailVars, ledgerVars, frontVars>>

\* the projects in the database: P1 is in its window from the start, P2
\* may have the same title, a later deadline or be completed already
AlertInit ==
    /\ LedgerInit /\ apiKey = TRUE /\ OutboxInit /\ NotifyInit
    /\ CacheInit /\ MonitorInit
    /\ \E t \in Titles, d \in {AlertWindow, AlertWindow + 1},
          s \in {"ACTIVE", "COMPLETED"}, inv \in {{"u2"}, {"u1", "u2"}} :
          bprojects = [p \in BProjects |->
                         IF p = "P1" THEN BProject("T1", AlertWindow, {"u1"})
                         ELSE [BProject(t, d, inv) EXCEPT !.status = s]]

AlertNext ==
    \/ deadlineAlertCron
    \/ NextProject
    \/ NotifyInvestor
    \/ \E ok \in BOOLEAN : NotifyEmail(ok)
    \/ \E o \in PushOutcomes : NotifyPush(o)
    \/ \E u \in UserIds, s \in SettingsChoices : updateSettings(u, s)
    \/ TickClock

AlertSpec == AlertInit /\ [][AlertNext]_vars

\* ---------------------------------------------------------------- C33
\* C33: over runs of the deadline alert task that do not overlap, a
\* contributor gets the alert of a project at most once, and an alert is
\* only recorded for a contributor of a project that is ACTIVE with its
\* deadline after the run's now and at most the alert window away.
AlertsTo(u, p) ==
    {i \in DOMAIN notifications :
        /\ notifications[i].type = "DEADLINE"
        /\ notifications[i].pid = p
        /\ notifications[i].userId = u}

C33_AlertOnceInWindow ==
    /\ [](\A u \in UserIds, p \in BProjects : Cardinality(AlertsTo(u, p)) <= 1)
    /\ [][ \A p \in BProjects :
             (/\ Len(notifications') > Len(notifications)
              /\ notifications'[Len(notifications')].pid = p) =>
                /\ notifications'[Len(notifications')].type = "DEADLINE"
                /\ notifications'[Len(notifications')].title
                      = AlertTitle(bprojects[p].title)
                /\ notifications'[Len(notifications')].userId
                      \in bprojects[p].investors
                /\ bprojects[p].status = "ACTIVE"
                /\ bprojects[p].deadline > arun.now
                /\ bprojects[p].deadline <= arun.now + AlertWindow
         ]_vars

C33_Witness ==
    /\ AlertsTo("u1", "P1") # {}
    /\ arun.decision = [pid |-> "P1", existing |-> TRUE]
    /\ arun.now > 0

\* ---------------------------------------------------------------- C34
\* C34: the duplicate check is per project: the task skips a project only
\* when an alert of that project is on record, also when another project
\* has the same title.
C34_DuplicateCheckPerProject ==
    [][ \A p \in BProjects :
          (/\ arun'.decision # arun.decision
           /\ arun'.decision.pid = p
           /\ arun'.decision.existing) =>
              \E i \in DOMAIN notifications :
                  /\ notifications[i].type = "DEADLINE"
                  /\ notifications[i].pid = p
      ]_vars

\* ======================================================= fetchWithCache
Unexpired(key) == cache[key] # NoEntry /\ dateNow < cache[key][1].expiresAt

\* the call up to its first await: a cache hit returns at once
fetchWithCache(c, key, ttlMs) ==
    /\ fcalls[c].pc = "idle"
    /\ fcalls' = [fcalls EXCEPT ![c] =
          IF Unexpired(key)
          THEN [IdleFetch EXCEPT !.key = key, !.ttl = ttlMs,
                    !.result = FResult("returned", cache[key][1].data)]
          ELSE [IdleFetch EXCEPT !.pc = "fetching", !.key = key,
                                 !.ttl = ttlMs]]
    /\ UNCHANGED <<cache, dateNow, monVars, notifVars, mailVars, ledgerVars>>

\* the awaited fetcher resolves: the entry is written and the call returns
FetcherResolves(c, data) ==
    /\ fcalls[c].pc = "fetching"
    /\ cache' = [cache EXCEPT ![fcalls[c].key] =
                    <<[data |-> data, expiresAt |-> dateNow + fcalls[c].ttl]>>]
    /\ fcalls' = [fcalls EXCEPT ![c].pc = "idle",
                                ![c].calls = @ + 1,
                                ![c].result = FResult("returned", data)]
    /\ UNCHANGED <<dateNow, monVars, notifVars, mailVars, ledgerVars>>

\* a catch block that keeps the first error
LastErrFirst(call, err) == IF call.calls = 0 THEN err ELSE call.lastErr

\* lastErr = err
LastErr(call, err) == err

\* the awaited fetcher rejects: the catch block starts its backoff sleep
FetcherRejects(c, err) ==
    /\ fcalls[c].pc = "fetching"
    /\ fcalls' = [fcalls EXCEPT ![c].pc = "sleeping",
                                ![c].calls = @ + 1,
                                ![c].lastErr = LastErr(fcalls[c], err),
                                ![c].rejected = err]
    /\ UNCHANGED <<cache, dateNow, monVars, notifVars, mailVars, ledgerVars>>

\* the backoff sleep ends: the next attempt, or throw lastErr
SleepEnds(c) ==
    /\ fcalls[c].pc = "sleeping"
    /\ fcalls' = [fcalls EXCEPT ![c] =
          IF fcalls[c].attempt + 1 < FetchAttempts
          THEN [@ EXCEPT !.pc = "fetching", !.attempt = @ + 1]
          ELSE [@ EXCEPT !.pc = "idle", !.attempt = @ + 1,
                         !.result = FResult("thrown", fcalls[c].lastErr)]]
    /\ UNCHANGED <<cache, dateNow, monVars, notifVars, mailVars, ledgerVars>>

CacheAfterInvalidate == [k \in Keys |-> NoEntry]

invalidateCache ==
    /\ cache' = CacheAfterInvalidate
    /\ cache' # cache
    /\ UNCHANGED <<dateNow, fcalls, monVars, notifVars, mailVars, ledgerVars>>

TickDateNow ==
    /\ dateNow < MaxDateNow
    /\ dateNow' = dateNow + 1
    /\ UNCHANGED <<cache, fcalls, monVars, notifVars, mailVars, ledgerVars>>

CacheNext ==
    \/ \E c \in FCallIds, k \in Keys, t \in Ttls : fetchWithCache(c, k, t)
    \/ \E c \in FCallIds, d \in Data : FetcherResolves(c, d)
    \/ \E c \in FCallIds, e \in Errors : FetcherRejects(c, e)
    \/ \E c \in FCallIds : SleepEnds(c)
    \/ invalidateCache
    \/ TickDateNow

CacheSpec == Init /\ [][CacheNext]_vars

\* ---------------------------------------------------------------- C35
\* C35: fetchWithCache returns the cached value without calling the fetcher
\* while an unexpired entry exists; otherwise it calls the fetcher at most 3
\* times, caches and returns the first successful result, and after 3
\* failures throws the last error; a failed attempt writes nothing to the
\* cache.
C35_FetchWithCache ==
    [][ \A c \in FCallIds :
          LET a == fcalls[c]
              b == fcalls'[c]
          IN  (a # b) =>
                /\ (a.pc = "idle") =>
                      /\ cache' = cache
                      /\ b.calls = 0
                      /\ IF /\ cache[b.key] # NoEntry
                            /\ dateNow < cache[b.key][1].expiresAt
                         THEN /\ b.pc = "idle"
                              /\ b.result = FResult("returned",
                                                    cache[b.key][1].data)
                         ELSE b.pc = "fetching"
                /\ b.calls <= 3
                /\ (b.calls > a.calls /\ b.result.kind = "returned") =>
                      /\ a.calls = a.attempt
                      /\ b.pc = "idle"
                      /\ cache'[b.key] = <<[data |-> b.result.value,
                                            expiresAt |-> dateNow + b.ttl]>>
                /\ (b.calls > a.calls /\ b.result.kind # "returned") =>
                      /\ cache' = cache
                      /\ b.pc = "sleeping"
                /\ (a.pc = "sleeping") => cache' = cache
                /\ (a.pc = "sleeping" /\ b.pc = "idle") =>
                      /\ b.calls = 3
                      /\ b.result = FResult("thrown", a.rejected)
                /\ (b.result.kind = "thrown") =>
                      a.pc = "sleeping" /\ a.calls = 3
      ]_vars

C35_Witness ==
    \E c \in FCallIds :
        /\ fcalls[c].pc = "idle"
        /\ fcalls[c].result = FResult("thrown", "e2")
        /\ fcalls[c].calls = 3
        /\ cache[fcalls[c].key] # NoEntry
        /\ \E d \in FCallIds : fcalls[d].result.kind = "returned"
                                /\ fcalls[d].calls = 0

\* ================================================ real-time risk monitor
SessionObj(projectId) ==
    [projectId |-> projectId, snapshots |-> << >>, handle |-> TRUE,
     alertHandlers |-> {}, snapshotHandlers |-> {}]

FreePolls == {k \in PollIds : polls[k].pc = "idle"}

FreePoll == CHOOSE k \in FreePolls : \A j \in FreePolls : k <= j

\* session.snapshots[session.snapshots.length - 1]?.riskScore
LastScore(snapshots) ==
    IF snapshots = << >> THEN << >>
    ELSE <<snapshots[Len(snapshots)].riskScore>>

\* runPoll up to its await, on the session the map holds for the project
PollStarted(k, p, sid, snapshots) ==
    [polls EXCEPT ![k] = [pc |-> "awaiting", sid |-> sid, pid |-> p,
                          prevAtStart |-> LastScore(snapshots)]]

CacheAfterPollStart(p) == IF p = "p1" THEN CacheAfterInvalidate ELSE cache

\* a monitor that never finds a session
AlreadyMonitoredNever(projectId) == FALSE

\* _sessions.has(projectId)
AlreadyMonitored(projectId) == sessions[projectId] # 0

startMonitoring(projectId) ==
    /\ IF AlreadyMonitored(projectId)
       THEN /\ lastMon' = MonCall("startMonitoring", projectId, "noop")
            /\ UNCHANGED <<sessions, sobjs, polls, cache>>
       ELSE /\ Len(sobjs) + 1 \in SessionIds
            /\ FreePolls # {}
            /\ sobjs' = Append(sobjs, SessionObj(projectId))
            /\ sessions' = [sessions EXCEPT ![projectId] = Len(sobjs) + 1]
            /\ polls' = PollStarted(FreePoll, projectId,
                                    Len(sobjs) + 1, << >>)
            /\ cache' = CacheAfterPollStart(projectId)
            /\ lastMon' = MonCall("startMonitoring", projectId, "started")
    /\ UNCHANGED <<lastPoll, dateNow, fcalls, notifVars, mailVars, ledgerVars>>

\* the interval timer of a session fires: runPoll(projectId) up to its await
TimerFires(sid) ==
    /\ sid \in DOMAIN sobjs
    /\ sobjs[sid].handle
    /\ FreePolls # {}
    /\ LET p == sobjs[sid].projectId
       IN  /\ sessions[p] # 0
           /\ polls' = PollStarted(FreePoll, p, sessions[p],
                                   sobjs[sessions[p]].snapshots)
           /\ cache' = CacheAfterPollStart(p)
    /\ UNCHANGED <<sessions, sobjs, lastPoll, lastMon>>
    /\ UNCHANGED <<dateNow, fcalls, notifVars, mailVars, ledgerVars>>

\* a poll that takes the previous score it saw before the await
PrevAtStart(poll, session) == poll.prevAtStart

\* const prev = session.snapshots[length - 1], read after the await
Prev(poll, session) == LastScore(session.snapshots)

\* the alert a delta raises
AlertFor(delta) ==
    IF delta <= -10 THEN "CRITICAL"
    ELSE IF delta <= -5 THEN "WARNING"
    ELSE IF delta >= 10 THEN "INFO"
    ELSE "none"

\* push, and shift once the history is longer than the cap
Pushed(snapshots, snapshot) ==
    LET all == Append(snapshots, snapshot)
    IN  IF Len(all) > SnapshotCap THEN Tail(all) ELSE all

\* assessProject resolves to a result: the rest of runPoll
PollResolves(k, score) ==
    /\ polls[k].pc = "awaiting"
    /\ LET sid == polls[k].sid
           session == sobjs[sid]
           prev == Prev(polls[k], session)
           prevScore == IF prev = << >> THEN score ELSE prev[1]
           delta == score - prevScore
           alert == AlertFor(delta)
           snapshot == [riskScore |-> score, deltaFromPrevious |-> delta,
                        alert |-> alert]
       IN  /\ sobjs' = [sobjs EXCEPT ![sid].snapshots = Pushed(@, snapshot)]
           /\ lastPoll' = [alertInvoked |-> IF alert = "none" THEN {}
                                            ELSE session.alertHandlers,
                           snapshotInvoked |-> session.snapshotHandlers]
    /\ polls' = [polls EXCEPT ![k] = IdlePoll]
    /\ UNCHANGED <<sessions, lastMon, cacheVars>>
    /\ UNCHANGED <<notifVars, mailVars, ledgerVars>>

\* assessProject resolves to null: runPoll returns
PollResolvesNull(k) ==
    /\ polls[k].pc = "awaiting"
    /\ polls' = [polls EXCEPT ![k] = IdlePoll]
    /\ UNCHANGED <<sessions, sobjs, lastPoll, lastMon, cacheVars>>
    /\ UNCHANGED <<notifVars, mailVars, ledgerVars>>

stopMonitoring(projectId) ==
    /\ IF sessions[projectId] # 0
       THEN /\ sobjs' = [sobjs EXCEPT ![sessions[projectId]].handle = FALSE]
            /\ sessions' = [sessions EXCEPT ![projectId] = 0]
       ELSE UNCHANGED <<sessions, sobjs>>
    /\ UNCHANGED <<polls, lastPoll, lastMon, cacheVars>>
    /\ UNCHANGED <<notifVars, mailVars, ledgerVars>>

onRiskAlert(projectId, handler) ==
    /\ sessions[projectId] # 0
    /\ sobjs' = [sobjs EXCEPT
                   ![sessions[projectId]].alertHandlers = @ \cup {handler}]
    /\ UNCHANGED <<sessions, polls, lastPoll, lastMon, cacheVars>>
    /\ UNCHANGED <<notifVars, mailVars, ledgerVars>>

onRiskSnapshot(projectId, handler) ==
    /\ sessions[projectId] # 0
    /\ sobjs' = [sobjs EXCEPT
                   ![sessions[projectId]].snapshotHandlers = @ \cup {handler}]
    /\ UNCHANGED <<sessions, polls, lastPoll, lastMon, cacheVars>>
    /\ UNCHANGED <<notifVars, mailVars, ledgerVars>>

\* the function onRiskAlert and onRiskSnapshot return
unsubscribe(projectId, handler) ==
    /\ sessions[projectId] # 0
    /\ sobjs' = [sobjs EXCEPT
                   ![sessions[projectId]].alertHandlers = @ \ {handler},
                   ![sessions[projectId]].snapshotHandlers = @ \ {handler}]
    /\ UNCHANGED <<sessions, polls, lastPoll, lastMon, cacheVars>>
    /\ UNCHANGED <<notifVars, mailVars, ledgerVars>>

MonitorNext ==
    \/ \E p \in MonProjects : startMonitoring(p)
    \/ \E sid \in SessionIds : TimerFires(sid)
    \/ \E k \in PollIds, score \in Scores : PollResolves(k, score)
    \/ \E k \in PollIds : PollResolvesNull(k)
    \/ \E p \in MonProjects : stopMonitoring(p)
    \/ \E p \in MonProjects, h \in AlertHandlers : onRiskAlert(p, h)
    \/ \E p \in MonProjects, h \in SnapshotHandlers : onRiskSnapshot(p, h)
    \/ \E p \in MonProjects, h \in AlertHandlers \cup SnapshotHandlers :
            unsubscribe(p, h)

MonitorSpec == Init /\ [][MonitorNext]_vars

\* ---------------------------------------------------------------- C36
\* C36: after any sequence of startMonitoring and stopMonitoring calls a
\* project has at most one session and one running interval timer, the
\* timer of the session the map holds; startMonitoring on a monitored
\* project keeps the session, its handlers and snapshots and starts no
\* poll; stopMonitoring clears the timer and removes the session.
RunningTimers(p) ==
    {sid \in DOMAIN sobjs : sobjs[sid].projectId = p /\ sobjs[sid].handle}

C36_OneSessionPerProject ==
    /\ [](\A p \in MonProjects :
            /\ Cardinality(RunningTimers(p)) <= 1
            /\ RunningTimers(p) = IF sessions[p] = 0 THEN {} ELSE {sessions[p]})
    /\ [][ \A p \in MonProjects :
             /\ (sessions[p] # 0 /\ startMonitoring(p)) =>
                    UNCHANGED <<sessions, sobjs, polls>>
             /\ (sessions[p] # 0 /\ stopMonitoring(p)) =>
                    /\ sessions'[p] = 0
                    /\ ~sobjs'[sessions[p]].handle
         ]_vars

C36_Witness ==
    /\ lastMon = MonCall("startMonitoring", "p1", "noop")
    /\ sessions["p1"] = 2
    /\ ~sobjs[1].handle
    /\ sobjs[2].handle
    /\ sobjs[2].snapshots # << >>
    /\ sobjs[2].snapshotHandlers # {}

\* ---------------------------------------------------------------- C37
\* C37: once stopMonitoring has returned, a poll of that project invokes
\* no alert handler and no snapshot handler any more, also a poll that was
\* awaiting its assessment when the project was stopped.
C37_NoHandlerAfterStop ==
    [][ \A k \in PollIds, score \in Scores :
          (/\ PollResolves(k, score)
           /\ lastPoll'.alertInvoked \cup lastPoll'.snapshotInvoked # {}) =>
              sessions[polls[k].pid] # 0
      ]_vars

\* ---------------------------------------------------------------- C38
\* C38: the deltaFromPrevious of every snapshot a poll stores is its
\* riskScore minus the riskScore of the snapshot stored last before it, and
\* 0 when the history was empty, also when polls overlap.
C38_DeltaFromPrevious ==
    /\ [](\A sid \in DOMAIN sobjs :
            \A i \in 1..(Len(sobjs[sid].snapshots) - 1) :
                sobjs[sid].snapshots[i + 1].deltaFromPrevious =
                    sobjs[sid].snapshots[i + 1].riskScore
                        - sobjs[sid].snapshots[i].riskScore)
    /\ [][ \A k \in PollIds, score \in Scores :
             PollResolves(k, score) =>
                LET before == sobjs[polls[k].sid].snapshots
                    after == sobjs'[polls[k].sid].snapshots
                    new == after[Len(after)]
                IN  /\ new.riskScore = score
                    /\ new.deltaFromPrevious =
                          IF before = << >> THEN 0
                          ELSE score - before[Len(before)].riskScore
         ]_vars

C38_Witness ==
    \E k \in PollIds :
        /\ polls[k].pc = "awaiting"
        /\ polls[k].prevAtStart = << >>
        /\ sobjs[polls[k].sid].snapshots # << >>
        /\ sobjs[polls[k].sid].snapshots[1].deltaFromPrevious = 10

====
